---- MODULE Spec2Model ----
(***************************************************************************)
(* Model of the 3D shelving configurator (ShelvingUnitPro): the unit       *)
(* state, the drag-start map, the drag handlers as the transform-control   *)
(* listeners invoke them, the add / remove / layout / reset handlers, the  *)
(* dimension sliders, and the meshes ShelvingUnitModel derives.            *)
(*                                                                         *)
(* Lengths and normalized positions are exact rationals on an integer      *)
(* grid: 0.01 is H model units, so that the halvings done by add-shelf and *)
(* add-column stay exact.  Floating-point rounding is not modelled.        *)
(***************************************************************************)
EXTENDS Integers, Sequences, FiniteSets, TLC

\* ---------------------------------------------------------------- bounds
MaxElems    == 3   \* add-shelf / add-column are explored up to this length
MaxEvents   == 5   \* events handled in one behaviour (drag start / update / end, clicks)
MaxActive   == 2   \* gestures in progress at once (one pointer per control)
Epoch       == 4   \* first value Date.now() can return (above preset ids)
ClockSpan   == 1   \* Date.now() stays within Epoch .. Epoch + ClockSpan

\* ------------------------------------------------------------ number grid
H      == 2 ^ MaxElems          \* model units per 0.01
P(c)   == c * H                 \* a value given in hundredths
One    == P(100)
Abs(x) == IF x < 0 THEN 0 - x ELSE x

\* normalized positions an objectChange event reports (hundredths): the
\* transform control does not bound the mesh position, so values outside [0,1]
\* (here: above 1) are among them
DragHundredths == {0, 20, 55, 60, 70, 73, 80, 110}
DragPositions  == {P(c) : c \in DragHundredths}

\* ------------------------------------------------------------- the state
VARIABLES
    unit,               \* ShelvingUnitState held by useState
    dragStartPosition,  \* Record<string, number> held by useState
    active,             \* controls being dragged -> the render closure their
                        \* objectChange listener was created in (+ history)
    clock,              \* last value returned by Date.now()
    events,             \* number of events handled so far
    last                \* history: the handler that ran last and what it computed

vars == <<unit, dragStartPosition, active, clock, events, last>>

\* ids: the string "s<n>" is <<"s", n>>, "c<n>" is <<"c", n>>
Sid(n) == <<"s", n>>
Cid(n) == <<"c", n>>

Elem(i, p, d) == [id |-> i, position |-> p, divisions |-> d]

LayoutNames == {"basic", "bookshelf", "display", "grid"}

LAYOUTS ==
    [basic |->
        [shelves |-> <<Elem(Sid(1), P(50), 2)>>,
         columns |-> <<Elem(Cid(1), P(50), 1)>>],
     bookshelf |->
        [shelves |-> <<Elem(Sid(1), P(25), 1), Elem(Sid(2), P(50), 3), Elem(Sid(3), P(75), 2)>>,
         columns |-> <<>>],
     display |->
        [shelves |-> <<Elem(Sid(1), P(33), 2), Elem(Sid(2), P(66), 4)>>,
         columns |-> <<Elem(Cid(1), P(33), 2), Elem(Cid(2), P(66), 2)>>],
     grid |->
        [shelves |-> <<Elem(Sid(1), P(33), 3), Elem(Sid(2), P(66), 3)>>,
         columns |-> <<Elem(Cid(1), P(33), 2), Elem(Cid(2), P(66), 2)>>]]

\* ------------------------------------------------------- JavaScript idioms
EmptyMap == [k \in {} |-> 0]

\* { ...prev, [id]: v }
Put(m, id, v) == [k \in (DOMAIN m) \cup {id} |-> IF k = id THEN v ELSE m[k]]

\* !m[id] : undefined and 0 are both falsy
Falsy(m, id) == ~(id \in DOMAIN m /\ m[id] # 0)

\* m[id] || dflt
OrElse(m, id, dflt) == IF Falsy(m, id) THEN dflt ELSE m[id]

Ids(seq) == {seq[i].id : i \in 1..Len(seq)}

\* seq.find((e) => e.id === id)?.position || 0
FindPosition(seq, id) ==
    IF id \in Ids(seq)
    THEN seq[CHOOSE i \in 1..Len(seq) :
                /\ seq[i].id = id
                /\ \A j \in 1..(i - 1) : seq[j].id # id].position
    ELSE 0


\* ------------------------------------------------- drag-to-division rule
\* (mutation of NewDivisions: first threshold compared with >=)
NewDivisionsGe05(dragDistance) ==
    LET n1 == 1
        n2 == IF dragDistance >= P(5) THEN 2 ELSE n1
        n3 == IF dragDistance > P(10) THEN 3 ELSE n2
        n4 == IF dragDistance > P(15) THEN 4 ELSE n3
        n5 == IF dragDistance > P(20) THEN 5 ELSE n4
    IN  n5

\* (mutation of NewDivisions: Math.floor(dragDistance / 0.05) + 1, capped at 5)
NewDivisionsFloor(dragDistance) ==
    LET q == dragDistance \div P(5) IN 1 + (IF q > 4 THEN 4 ELSE q)

\* (mutation of NewDivisions: one more threshold, at 0.25)
NewDivisionsSixth(dragDistance) ==
    LET n1 == 1
        n2 == IF dragDistance > P(5)  THEN 2 ELSE n1
        n3 == IF dragDistance > P(10) THEN 3 ELSE n2
        n4 == IF dragDistance > P(15) THEN 4 ELSE n3
        n5 == IF dragDistance > P(20) THEN 5 ELSE n4
        n6 == IF dragDistance > P(25) THEN 6 ELSE n5
    IN  n6

\* let newDivisions = 1; if (dragDistance > 0.05) newDivisions = 2; ...
NewDivisions(dragDistance) ==
    LET n1 == 1
        n2 == IF dragDistance > P(5)  THEN 2 ELSE n1
        n3 == IF dragDistance > P(10) THEN 3 ELSE n2
        n4 == IF dragDistance > P(15) THEN 4 ELSE n3
        n5 == IF dragDistance > P(20) THEN 5 ELSE n4
    IN  n5

\* const startPos = dragStartPosition[id] || element.position
\* (dragStartPosition is the one of the render the handler was created in)
StartPos(renderMap, el, id) == OrElse(renderMap, id, el.position)

\* (mutation of DragDistance: no baseline recorded counts as no movement)
DragDistanceZeroOnMiss(renderMap, el, id, normalized) ==
    IF Falsy(renderMap, id) THEN 0 ELSE Abs(normalized - renderMap[id])

\* const dragDistance = Math.abs(normalized - startPos)
DragDistance(renderMap, el, id, normalized) ==
    Abs(normalized - StartPos(renderMap, el, id))

\* the position stored for the dragged element
StoredPosition(normalized) == normalized

\* (mutation of DragMap: the dragged element is taken out and put back last)
DragMapMovesLast(seq, renderMap, id, normalized) ==
    SelectSeq(seq, LAMBDA e : e.id # id) \o
    [i \in 1..Len(SelectSeq(seq, LAMBDA e : e.id = id)) |->
        LET e == SelectSeq(seq, LAMBDA x : x.id = id)[i]
        IN  [e EXCEPT
               !.position  = StoredPosition(normalized),
               !.divisions = NewDivisions(DragDistance(renderMap, e, id, normalized))]]

\* prev.shelves.map(...) / prev.columns.map(...) of the setUnit updater
DragMap(seq, renderMap, id, normalized) ==
    [i \in 1..Len(seq) |->
        IF seq[i].id = id
        THEN [seq[i] EXCEPT
                !.position  = StoredPosition(normalized),
                !.divisions = NewDivisions(DragDistance(renderMap, seq[i], id, normalized))]
        ELSE seq[i]]

\* history: the dragDistance the updater computed for each element (-1: not dragged)
DragDists(seq, renderMap, id, normalized) ==
    [i \in 1..Len(seq) |->
        IF seq[i].id = id THEN DragDistance(renderMap, seq[i], id, normalized) ELSE 0 - 1]

\* --------------------------------------------------------- add shelf/column
InsertSorted(s, x) ==
    SelectSeq(s, LAMBDA e : e <= x) \o <<x>> \o SelectSeq(s, LAMBDA e : e > x)

RECURSIVE SortAsc(_)
\* .sort((a, b) => a - b)
SortAsc(s) == IF s = <<>> THEN <<>> ELSE InsertSorted(SortAsc(Tail(s)), Head(s))

Positions(seq) == [i \in 1..Len(seq) |-> seq[i].position]

Gap(maxGap, gapPosition) == [maxGap |-> maxGap, gapPosition |-> gapPosition]

RECURSIVE ScanGaps(_, _, _)
\* (mutation of ScanGaps: the new position is the start of the gap)
ScanGapsAtStart(ep, i, best) ==
    IF i > Len(ep) - 1 THEN best
    ELSE LET gap == ep[i + 1] - ep[i]
         IN  ScanGaps(ep, i + 1,
                      IF gap > best.maxGap THEN Gap(gap, ep[i]) ELSE best)

\* for (let i = 0; i < existingPositions.length - 1; i++) { ... }   (i is 1-based here)
ScanGaps(ep, i, best) ==
    IF i > Len(ep) - 1 THEN best
    ELSE LET gap == ep[i + 1] - ep[i]
         IN  ScanGaps(ep, i + 1,
                      IF gap > best.maxGap THEN Gap(gap, ep[i] + gap \div 2) ELSE best)

\* (mutation of NewPosition: the last gap also wins a tie)
NewPositionTieLast(existingPositions) ==
    IF Len(existingPositions) > 0
    THEN LET ep    == existingPositions
             b0    == Gap(0, P(50))
             b1    == IF ep[1] > 0 THEN Gap(ep[1], ep[1] \div 2) ELSE b0
             b2    == ScanGaps(ep, 1, b1)
             lastP == ep[Len(ep)]
             b3    == IF lastP < One
                      THEN LET gap == One - lastP
                           IN  IF gap >= b2.maxGap THEN Gap(gap, lastP + gap \div 2) ELSE b2
                      ELSE b2
         IN  b3.gapPosition
    ELSE P(50)

\* (mutation of NewPosition: the gap after the last element measured as 1 + last)
NewPositionPastEnd(existingPositions) ==
    IF Len(existingPositions) > 0
    THEN LET ep    == existingPositions
             b0    == Gap(0, P(50))
             b1    == IF ep[1] > 0 THEN Gap(ep[1], ep[1] \div 2) ELSE b0
             b2    == ScanGaps(ep, 1, b1)
             lastP == ep[Len(ep)]
             b3    == IF lastP < One
                      THEN LET gap == One + lastP
                           IN  IF gap > b2.maxGap THEN Gap(gap, lastP + gap \div 2) ELSE b2
                      ELSE b2
         IN  b3.gapPosition
    ELSE P(50)

\* the newPosition computed by addShelf / addColumn from the sorted positions
NewPosition(existingPositions) ==
    IF Len(existingPositions) > 0
    THEN LET ep    == existingPositions
             b0    == Gap(0, P(50))
             b1    == IF ep[1] > 0 THEN Gap(ep[1], ep[1] \div 2) ELSE b0
             b2    == ScanGaps(ep, 1, b1)
             lastP == ep[Len(ep)]
             b3    == IF lastP < One
                      THEN LET gap == One - lastP
                           IN  IF gap > b2.maxGap THEN Gap(gap, lastP + gap \div 2) ELSE b2
                      ELSE b2
         IN  b3.gapPosition
    ELSE P(50)

\* divisions of a newly added shelf / column
NewElemDivisions == 2

\* (mutation of AppendElem: the new element is put in front)
PrependElem(seq, el) == <<el>> \o seq

\* [...prev.shelves, newShelf] / [...prev.columns, newColumn]
AppendElem(seq, el) == Append(seq, el)

\* id: `s${Date.now()}` / `c${Date.now()}`
NewShelfId(now)  == Sid(now)
NewColumnId(now) == Cid(now)

\* ------------------------------------------------------- derived geometry
\* scene lengths and coordinates are exact rationals too: a length of 0.01 is
\* Scale model units, so that halves, products with a normalized position and
\* quotients by a divisions count (1..6) are integers
Scale == 3 * One

\* a unit field (hundredths) as a scene length
Scene(len) == len * Scale

\* shelf.position * height, column.position * width
Times(position, len) == position * (len \div One)

\* a mesh: its position in the unit's group and the args of its boxGeometry
Box(name, position, args) == [name |-> name, position |-> position, args |-> args]

\* a mesh position inside a <group position={position}>
InGroup(position, local) ==
    <<position[1] + local[1], position[2] + local[2], position[3] + local[3]>>

\* (mutation of DivisionX: measured from the middle of the board)
DivisionXFromMiddle(width, divisions, i) == i * (width \div divisions)

\* const divisionWidth = width / divisions; divisionX = -width / 2 + i * divisionWidth
DivisionX(width, divisions, i) == (0 - width \div 2) + i * (width \div divisions)

\* const divisionHeight = height / divisions; divisionY = -height / 2 + i * divisionHeight
DivisionY(height, divisions, i) == (0 - height \div 2) + i * (height \div divisions)

\* if (divisions > 1) for (let i = 1; i < divisions; i++)
DivisionIndices(divisions) == IF divisions > 1 THEN 1..(divisions - 1) ELSE {}

ShelfWithDivisions(width, height, depth, position, divisions, thickness) ==
    [main |-> Box("shelf", position, <<width, thickness, depth>>),
     divisionMeshes |->
        [i \in DivisionIndices(divisions) |->
            Box("div", InGroup(position, <<DivisionX(width, divisions, i), 0, 0>>),
                <<thickness, thickness, depth>>)]]

ColumnWithDivisions(width, height, depth, position, divisions, thickness) ==
    [main |-> Box("column", position, <<thickness, height, depth>>),
     divisionMeshes |->
        [i \in DivisionIndices(divisions) |->
            Box("div", InGroup(position, <<0, DivisionY(height, divisions, i), 0>>),
                <<thickness, thickness, depth>>)]]

\* (mutation of ShelfWidth: the board as wide as the unit)
ShelfWidthOuter(width, thickness) == width

\* width={width - thickness * 2} of a shelf
ShelfWidth(width, thickness) == width - thickness * 2

\* (mutation of ColumnHeight: the board shortened by the top and bottom panels)
ColumnHeightInner(height, thickness) == height - thickness * 2

\* height={height} of a column
ColumnHeight(height, thickness) == height

\* const yPosition = -height / 2 + shelf.position * height
YPosition(height, shelf) == (0 - height \div 2) + Times(shelf.position, height)

\* const xPosition = -width / 2 + column.position * width
XPosition(width, column) == (0 - width \div 2) + Times(column.position, width)

\* the meshes ShelvingUnitModel renders for a unit
ShelvingUnitModel(u) ==
    LET width     == Scene(u.width)
        height    == Scene(u.height)
        depth     == Scene(u.depth)
        thickness == Scene(u.thickness)
        shelfComponents ==
            [i \in 1..Len(u.shelves) |->
                ShelfWithDivisions(ShelfWidth(width, thickness), height,
                                   depth - thickness * 2,
                                   <<0, YPosition(height, u.shelves[i]), 0>>,
                                   u.shelves[i].divisions, thickness)]
        columnComponents ==
            [i \in 1..Len(u.columns) |->
                ColumnWithDivisions(width, ColumnHeight(height, thickness),
                                    depth - thickness * 2,
                                    <<XPosition(width, u.columns[i]), 0, 0>>,
                                    u.columns[i].divisions, thickness)]
    IN  IF u.viewMode = "3d"
        THEN [bottom |-> Box("bottom", <<0, 0 - height \div 2, 0>>, <<width, thickness, depth>>),
              top    |-> Box("top", <<0, height \div 2, 0>>, <<width, thickness, depth>>),
              left   |-> Box("left-side", <<(0 - width \div 2) + thickness \div 2, 0, 0>>,
                             <<thickness, height, depth>>),
              right  |-> Box("right-side", <<width \div 2 - thickness \div 2, 0, 0>>,
                             <<thickness, height, depth>>),
              back   |-> Box("back", <<0, 0, (0 - depth \div 2) + thickness \div 2>>,
                             <<width, height, thickness>>),
              shelfComponents  |-> shelfComponents,
              columnComponents |-> columnComponents]
        ELSE [shelfComponents |-> <<>>, columnComponents |-> <<>>]

\* -------------------------------------------------------- dimension lines
\* coordinates of dimension lines are in half hundredths (0.005), so that
\* width / 2 and thickness * 1.5 are integers
D2(c) == 2 * c

Zero3 == <<0, 0, 0>>
VAdd(a, b) == <<a[1] + b[1], a[2] + b[2], a[3] + b[3]>>
VSub(a, b) == <<a[1] - b[1], a[2] - b[2], a[3] - b[3]>>
VScale(k, a) == <<k * a[1], k * a[2], k * a[3]>>
VDot(a, b) == a[1] * b[1] + a[2] * b[2] + a[3] * b[3]
Sign(x) == IF x > 0 THEN 1 ELSE IF x < 0 THEN 0 - 1 ELSE 0

\* a THREE.Vector3 with value r + s / sqrt(n): normalizing a direction that
\* is not along an axis divides by an irrational length, which is kept
\* symbolically
Sym(r, s, n) == [r |-> r, s |-> s, n |-> n]
Rational(r) == Sym(r, Zero3, 1)
SymAdd(a, b) == Sym(VAdd(a.r, b.r), VAdd(a.s, b.s), IF a.s = Zero3 THEN b.n ELSE a.n)
SymSub(a, b) == Sym(VSub(a.r, b.r), VSub(a.s, b.s), IF a.s = Zero3 THEN b.n ELSE a.n)

IsAxis(d) == Cardinality({a \in 1..3 : d[a] # 0}) = 1

\* new THREE.Vector3(...dir).normalize().multiplyScalar(len)
NormalizedTimes(dir, len) ==
    IF dir = Zero3 THEN Rational(Zero3)
    ELSE IF IsAxis(dir) THEN Rational(VScale(len, <<Sign(dir[1]), Sign(dir[2]), Sign(dir[3])>>))
    ELSE Sym(Zero3, VScale(len, dir), VDot(dir, dir))

RECURSIVE SqrtFloorIn(_, _, _)
\* the integer r in lo..hi-1 with r * r <= n < (r + 1) * (r + 1)
SqrtFloorIn(n, lo, hi) ==
    IF hi - lo <= 1 THEN lo
    ELSE LET mid == (lo + hi) \div 2
         IN  IF mid * mid <= n THEN SqrtFloorIn(n, mid, hi) ELSE SqrtFloorIn(n, lo, mid)

SqrtFloor(n) == SqrtFloorIn(n, 0, 46341)

\* const UNIT_TO_MM = 1000
UNIT_TO_MM == 1000

\* (mutation of DisplayValue: the distance is rounded without the factor)
DisplayValueInUnits(d2) == (SqrtFloor(d2) \div 100 + 1) \div 2

\* Math.round(startPoint.distanceTo(endPoint) * UNIT_TO_MM), from the squared
\* distance d2 in (half hundredths)^2: round(x) = floor(x + 1/2)
DisplayValue(d2) ==
    (SqrtFloor(d2 * (UNIT_TO_MM \div 100) * (UNIT_TO_MM \div 100)) + 1) \div 2

\* new THREE.Vector3(direction.y, -direction.x, 0).normalize(), replaced by
\* (1, 0, 0) if |direction.x| and |direction.y| are below 0.1; d is the
\* direction before normalization
Perpendicular(d) ==
    IF d = Zero3 \/ (100 * d[1] * d[1] < VDot(d, d) /\ 100 * d[2] * d[2] < VDot(d, d))
    THEN <<1, 0, 0>>
    ELSE <<d[2], 0 - d[1], 0>>

\* an extension line: from the displaced anchor to the displaced offset point
ExtensionLine(anchor, offsetPoint, extensionOffset) ==
    <<SymAdd(Rational(anchor), extensionOffset), SymAdd(offsetPoint, extensionOffset)>>

\* const extensionLineOffset = 0.03 (default prop)
ExtensionLineOffset == D2(3)

\* the points and the label value DimensionLine computes
DimensionLine(start, end, offset, offsetDirection) ==
    LET offsetVec  == NormalizedTimes(offsetDirection, offset)
        startPoint == SymAdd(Rational(start), offsetVec)
        endPoint   == SymAdd(Rational(end), offsetVec)
        span       == SymSub(endPoint, startPoint)
        extensionOffset == NormalizedTimes(Perpendicular(span.r), ExtensionLineOffset)
    IN  [start |-> start, end |-> end,
         startPoint |-> startPoint, endPoint |-> endPoint,
         displayValue |-> DisplayValue(VDot(span.r, span.r)),
         extensionLine1 |-> ExtensionLine(start, startPoint, extensionOffset),
         extensionLine2 |-> ExtensionLine(end, endPoint, extensionOffset)]

\* (mutation of DimensionLabels: the width line is offset along (1, -1, 0))
DimensionLabelsSkewed(width, height, depth, thickness) ==
    LET halfWidth  == D2(width) \div 2
        halfHeight == D2(height) \div 2
        halfDepth  == D2(depth) \div 2
        t          == D2(thickness)
    IN  <<DimensionLine(<<0 - halfWidth, (0 - halfHeight) - D2(10), halfDepth>>,
                        <<halfWidth, (0 - halfHeight) - D2(10), halfDepth>>,
                        D2(5), <<1, 0 - 1, 0>>),
          DimensionLine(<<halfWidth + D2(10), 0 - halfHeight, halfDepth>>,
                        <<halfWidth + D2(10), halfHeight, halfDepth>>,
                        D2(5), <<1, 0, 0>>),
          DimensionLine(<<halfWidth, halfHeight + D2(10), halfDepth>>,
                        <<halfWidth, halfHeight + D2(10), 0 - halfDepth>>,
                        D2(5), <<0, 1, 0>>),
          DimensionLine(<<halfWidth - t, (0 - halfHeight) + D2(20), halfDepth + D2(5)>>,
                        <<halfWidth, (0 - halfHeight) + D2(20), halfDepth + D2(5)>>,
                        D2(2), <<0, 1, 1>>)>>

\* the four lines of DimensionLabels: width, height, depth, thickness
DimensionLabels(width, height, depth, thickness) ==
    LET halfWidth  == D2(width) \div 2
        halfHeight == D2(height) \div 2
        halfDepth  == D2(depth) \div 2
        t          == D2(thickness)
    IN  <<DimensionLine(<<0 - halfWidth, (0 - halfHeight) - D2(10), halfDepth>>,
                        <<halfWidth, (0 - halfHeight) - D2(10), halfDepth>>,
                        D2(5), <<0, 0 - 1, 0>>),
          DimensionLine(<<halfWidth + D2(10), 0 - halfHeight, halfDepth>>,
                        <<halfWidth + D2(10), halfHeight, halfDepth>>,
                        D2(5), <<1, 0, 0>>),
          DimensionLine(<<halfWidth, halfHeight + D2(10), halfDepth>>,
                        <<halfWidth, halfHeight + D2(10), 0 - halfDepth>>,
                        D2(5), <<0, 1, 0>>),
          DimensionLine(<<halfWidth - t, (0 - halfHeight) + D2(20), halfDepth + D2(5)>>,
                        <<halfWidth, (0 - halfHeight) + D2(20), halfDepth + D2(5)>>,
                        D2(2), <<0, 1, 1>>)>>

\* the nine dimension lines of OrthographicViews: top view (width, depth,
\* thickness), front view (width, height, thickness), side view (depth,
\* height, thickness)
OrthographicDimensionLines(width, height, depth, thickness) ==
    LET halfWidth  == D2(width) \div 2
        halfHeight == D2(height) \div 2
        halfDepth  == D2(depth) \div 2
        t          == D2(thickness)
    IN  <<DimensionLine(<<0 - halfWidth, halfDepth + D2(20), 0>>,
                        <<halfWidth, halfDepth + D2(20), 0>>, D2(5), <<0, 1, 0>>),
          DimensionLine(<<halfWidth + D2(20), 0 - halfDepth, 0>>,
                        <<halfWidth + D2(20), halfDepth, 0>>, D2(5), <<1, 0, 0>>),
          DimensionLine(<<(0 - halfWidth) + t \div 2, (0 - halfDepth) - D2(10), 0>>,
                        <<(0 - halfWidth) + (3 * t) \div 2, (0 - halfDepth) - D2(10), 0>>,
                        D2(3), <<0, 0 - 1, 0>>),
          DimensionLine(<<0 - halfWidth, (0 - halfHeight) - D2(20), 0>>,
                        <<halfWidth, (0 - halfHeight) - D2(20), 0>>, D2(5), <<0, 0 - 1, 0>>),
          DimensionLine(<<halfWidth + D2(20), 0 - halfHeight, 0>>,
                        <<halfWidth + D2(20), halfHeight, 0>>, D2(5), <<1, 0, 0>>),
          DimensionLine(<<0 - halfWidth, (0 - halfHeight) + t \div 2, 0>>,
                        <<0 - halfWidth, (0 - halfHeight) + (3 * t) \div 2, 0>>,
                        D2(3), <<0 - 1, 0, 0>>),
          DimensionLine(<<0 - halfDepth, (0 - halfHeight) - D2(20), 0>>,
                        <<halfDepth, (0 - halfHeight) - D2(20), 0>>, D2(5), <<0, 0 - 1, 0>>),
          DimensionLine(<<halfDepth + D2(20), 0 - halfHeight, 0>>,
                        <<halfDepth + D2(20), halfHeight, 0>>, D2(5), <<1, 0, 0>>),
          DimensionLine(<<0 - halfDepth, (0 - halfHeight) + t \div 2, 0>>,
                        <<0 - halfDepth, (0 - halfHeight) + (3 * t) \div 2, 0>>,
                        D2(3), <<0 - 1, 0, 0>>)>>

\* ------------------------------------------------------------------- Init
NoOp == [op |-> "init", id |-> <<>>, y |-> 0, dists |-> <<>>, existing |-> <<>>, newPos |-> 0, n |-> 0]

InitialUnit ==
    [width |-> 300, height |-> 200, depth |-> 100, thickness |-> 5,
     shelves |-> LAYOUTS.basic.shelves,
     columns |-> LAYOUTS.basic.columns,
     showWireframe |-> FALSE, showDimensions |-> TRUE,
     viewMode |-> "3d", material |-> "wood"]

Init ==
    /\ unit = InitialUnit
    /\ dragStartPosition = EmptyMap
    /\ active = EmptyMap
    /\ clock = Epoch
    /\ events = 0
    /\ last = NoOp

\* ------------------------------------------------------- gesture plumbing
\* one more event is handled
Handle == /\ events < MaxEvents
          /\ events' = events + 1

Mounted(u) == Ids(u.shelves) \cup Ids(u.columns)

Without(m, id) == [k \in (DOMAIN m) \ {id} |-> m[k]]

\* history kept per gesture: p0 is the element's position in the unit state
\* right before the gesture's first update, updates / writes count the
\* objectChange events and the setDragStartPosition calls of the gesture,
\* solo says no other handler ran since the gesture started
Disturb(a) == [k \in DOMAIN a |-> [a[k] EXCEPT !.solo = FALSE]]

\* "dragging-changed" with value true.  The effect of ShelfWithDivisions /
\* ColumnWithDivisions runs after every render (its dependencies onDrag and
\* onDragEnd are new functions each time) and adds one more
\* "dragging-changed" listener; its cleanup removes nothing, because it names
\* handleDrag, which is never registered for that event.  At drag start each
\* of these listeners registers its own handleDrag for "objectChange", in
\* registration order, so the last one called per event is the one of the
\* latest render before the gesture.  Its setUnit updater overwrites position
\* and divisions written by the earlier ones, and its setDragStartPosition
\* updater runs last, so the state after an event is the one this handler
\* alone produces.  No handleDrag is registered during the gesture: until
\* drag end the control keeps calling handleShelfDrag / handleColumnDrag of
\* that render, with the unit and dragStartPosition captured there.
DragStart(id) ==
    /\ unit.viewMode = "3d"
    /\ id \in Mounted(unit)
    /\ id \notin DOMAIN active
    /\ Cardinality(DOMAIN active) < MaxActive
    /\ Handle
    /\ active' = Put(Disturb(active), id,
                     [render  |-> [unit |-> unit, dragStartPosition |-> dragStartPosition],
                      p0      |-> FindPosition(IF id[1] = "s" THEN unit.shelves ELSE unit.columns, id),
                      updates |-> 0,
                      writes  |-> 0,
                      solo    |-> TRUE])
    /\ last' = [NoOp EXCEPT !.op = "dragStart", !.id = id]
    /\ UNCHANGED <<unit, dragStartPosition, clock>>

\* history update of the gesture whose handler runs
Track(id, list, wrote) ==
    [k \in DOMAIN active |->
        IF k = id
        THEN [active[k] EXCEPT
                !.p0      = IF active[k].updates = 0 THEN FindPosition(list, id) ELSE @,
                !.updates = @ + 1,
                !.writes  = IF wrote THEN @ + 1 ELSE @]
        ELSE [active[k] EXCEPT !.solo = FALSE]]

\* "objectChange" on a shelf's control -> onDrag -> handleShelfDrag(id, normalizedY).
\* dragStartPosition and unit read directly by the handler are those of
\* the render it was created in; prev of the updaters is the current state.
handleShelfDrag(id, normalizedY) ==
    /\ id \in DOMAIN active
    /\ id[1] = "s"
    /\ Handle
    /\ LET render == active[id].render
           first  == Falsy(render.dragStartPosition, id)
       IN  /\ dragStartPosition' =
                IF first
                THEN Put(dragStartPosition, id, FindPosition(render.unit.shelves, id))
                ELSE dragStartPosition
           /\ unit' = [unit EXCEPT
                         !.shelves = DragMap(@, render.dragStartPosition, id, normalizedY)]
           /\ active' = Track(id, unit.shelves, first)
           /\ last' = [NoOp EXCEPT
                         !.op = "shelfDrag", !.id = id, !.y = normalizedY,
                         !.dists = DragDists(unit.shelves, render.dragStartPosition, id, normalizedY)]
    /\ UNCHANGED clock

\* "objectChange" on a column's control -> onDrag -> handleColumnDrag(id, normalizedX)
handleColumnDrag(id, normalizedX) ==
    /\ id \in DOMAIN active
    /\ id[1] = "c"
    /\ Handle
    /\ LET render == active[id].render
           first  == Falsy(render.dragStartPosition, id)
       IN  /\ dragStartPosition' =
                IF first
                THEN Put(dragStartPosition, id, FindPosition(render.unit.columns, id))
                ELSE dragStartPosition
           /\ unit' = [unit EXCEPT
                         !.columns = DragMap(@, render.dragStartPosition, id, normalizedX)]
           /\ active' = Track(id, unit.columns, first)
           /\ last' = [NoOp EXCEPT
                         !.op = "columnDrag", !.id = id, !.y = normalizedX,
                         !.dists = DragDists(unit.columns, render.dragStartPosition, id, normalizedX)]
    /\ UNCHANGED clock

\* (mutation of DragEndMap: forget only the baseline of the released element)
DragEndMapOwnEntry(prev, id) == Without(prev, id)

\* setDragStartPosition({})
DragEndMap(prev, id) == EmptyMap

\* "dragging-changed" with value false -> onDragEnd -> handleDragEnd()
handleDragEnd(id) ==
    /\ id \in DOMAIN active
    /\ Handle
    /\ dragStartPosition' = DragEndMap(dragStartPosition, id)
    /\ active' = Disturb(Without(active, id))
    /\ last' = [NoOp EXCEPT !.op = "dragEnd", !.id = id,
                            !.n = Cardinality(DOMAIN dragStartPosition)]
    /\ UNCHANGED <<unit, clock>>

\* ---------------------------------------------------------------- buttons
\* a button is clicked between gestures: while a control is being dragged
\* the pointer is held by that control
Click == /\ DOMAIN active = {}
         /\ Handle

Now == {t \in clock..(clock + 1) : t <= Epoch + ClockSpan}

addShelf(now) ==
    /\ Click
    /\ Len(unit.shelves) < MaxElems
    /\ LET existingPositions == SortAsc(Positions(unit.shelves))
           newShelf == Elem(NewShelfId(now), NewPosition(existingPositions), NewElemDivisions)
       IN  /\ unit' = [unit EXCEPT !.shelves = AppendElem(@, newShelf)]
           /\ last' = [NoOp EXCEPT !.op = "addShelf", !.id = newShelf.id,
                                   !.existing = existingPositions,
                                   !.newPos = newShelf.position]
    /\ clock' = now
    /\ UNCHANGED <<dragStartPosition, active>>

addColumn(now) ==
    /\ Click
    /\ Len(unit.columns) < MaxElems
    /\ LET existingPositions == SortAsc(Positions(unit.columns))
           newColumn == Elem(NewColumnId(now), NewPosition(existingPositions), NewElemDivisions)
       IN  /\ unit' = [unit EXCEPT !.columns = AppendElem(@, newColumn)]
           /\ last' = [NoOp EXCEPT !.op = "addColumn", !.id = newColumn.id,
                                   !.existing = existingPositions,
                                   !.newPos = newColumn.position]
    /\ clock' = now
    /\ UNCHANGED <<dragStartPosition, active>>

\* (mutation of DropLast: slice(1), the first element is dropped)
DropFirst(seq) == IF Len(seq) = 0 THEN seq ELSE SubSeq(seq, 2, Len(seq))

\* prev.shelves.slice(0, -1)
DropLast(seq) == IF Len(seq) = 0 THEN seq ELSE SubSeq(seq, 1, Len(seq) - 1)

\* the unit removeShelf / removeColumn leave: the last element dropped, if any
ShelfRemoved(prev) ==
    IF Len(prev.shelves) > 0 THEN [prev EXCEPT !.shelves = DropLast(@)] ELSE prev

ColumnRemoved(prev) ==
    IF Len(prev.columns) > 0 THEN [prev EXCEPT !.columns = DropLast(@)] ELSE prev

removeShelf ==
    /\ Click
    /\ unit' = ShelfRemoved(unit)
    /\ last' = [NoOp EXCEPT !.op = "removeShelf"]
    /\ UNCHANGED <<dragStartPosition, active, clock>>

removeColumn ==
    /\ Click
    /\ unit' = ColumnRemoved(unit)
    /\ last' = [NoOp EXCEPT !.op = "removeColumn"]
    /\ UNCHANGED <<dragStartPosition, active, clock>>

\* { ...prev, shelves: LAYOUTS[layout].shelves, columns: LAYOUTS[layout].columns }
LayoutApplied(prev, layout) ==
    [prev EXCEPT !.shelves = LAYOUTS[layout].shelves,
                 !.columns = LAYOUTS[layout].columns]

applyLayout(layout) ==
    /\ Click
    /\ unit' = LayoutApplied(unit, layout)
    /\ last' = [NoOp EXCEPT !.op = "applyLayout"]
    /\ UNCHANGED <<dragStartPosition, active, clock>>

\* (mutation of UnitReset: the initial unit, display attributes included)
UnitResetToInitial(u) == InitialUnit

\* the unit resetUnit sets, from the unit of the current render
UnitReset(u) ==
    [width |-> 300, height |-> 200, depth |-> 100,
     thickness |-> u.thickness,
     shelves |-> LAYOUTS.basic.shelves,
     columns |-> LAYOUTS.basic.columns,
     showWireframe |-> u.showWireframe,
     showDimensions |-> u.showDimensions,
     viewMode |-> u.viewMode,
     material |-> u.material]

resetUnit ==
    /\ Click
    /\ unit' = UnitReset(unit)
    /\ last' = [NoOp EXCEPT !.op = "resetUnit"]
    /\ UNCHANGED <<dragStartPosition, active, clock>>

\* ---------------------------------------------------------------- sliders
\* values the dimension sliders are moved to (hundredths): both ends of each
\* range (1..5, 1..4, 0.5..2, 0.01..0.2) and the initial value
WidthValues     == {100, 300, 500}
HeightValues    == {100, 200, 400}
DepthValues     == {50, 100, 200}
ThicknessValues == {1, 5, 20}

THICKNESS_PRESETS == {6, 12, 19, 25}

\* onValueChange of the width / height / depth / thickness slider
setWidth(value) ==
    /\ Click
    /\ unit' = [unit EXCEPT !.width = value]
    /\ last' = [NoOp EXCEPT !.op = "setWidth"]
    /\ UNCHANGED <<dragStartPosition, active, clock>>

setHeight(value) ==
    /\ Click
    /\ unit' = [unit EXCEPT !.height = value]
    /\ last' = [NoOp EXCEPT !.op = "setHeight"]
    /\ UNCHANGED <<dragStartPosition, active, clock>>

setDepth(value) ==
    /\ Click
    /\ unit' = [unit EXCEPT !.depth = value]
    /\ last' = [NoOp EXCEPT !.op = "setDepth"]
    /\ UNCHANGED <<dragStartPosition, active, clock>>

setThickness(value) ==
    /\ Click
    /\ unit' = [unit EXCEPT !.thickness = value]
    /\ last' = [NoOp EXCEPT !.op = "setThickness"]
    /\ UNCHANGED <<dragStartPosition, active, clock>>

applyThicknessPreset(thickness) ==
    /\ Click
    /\ unit' = [unit EXCEPT !.thickness = thickness]
    /\ last' = [NoOp EXCEPT !.op = "applyThicknessPreset"]
    /\ UNCHANGED <<dragStartPosition, active, clock>>

\* ------------------------------------------------------------------- Next
ElemIds == {Sid(n) : n \in 1..(Epoch + ClockSpan)} \cup {Cid(n) : n \in 1..(Epoch + ClockSpan)}

Next ==
    \/ \E id \in ElemIds : DragStart(id)
    \/ \E id \in ElemIds, y \in DragPositions : handleShelfDrag(id, y)
    \/ \E id \in ElemIds, x \in DragPositions : handleColumnDrag(id, x)
    \/ \E id \in ElemIds : handleDragEnd(id)
    \/ \E now \in Now : addShelf(now)
    \/ \E now \in Now : addColumn(now)
    \/ removeShelf
    \/ removeColumn
    \/ \E layout \in LayoutNames : applyLayout(layout)
    \/ resetUnit

Spec == Init /\ [][Next]_vars

\* ------------------------------------------- add shelf/column on any list
\* positions (hundredths) the elements have when the add button is clicked:
\* both ends of the range, and few enough values that elements coincide
AddHundredths == {0, 25, 50, 100}
AddPositions  == {P(c) : c \in AddHundredths}

PositionLists == UNION {[1..n -> AddPositions] : n \in 0..(MaxElems - 1)}

ShelvesAt(ps)  == [i \in 1..Len(ps) |-> Elem(Sid(i), ps[i], 1)]
ColumnsAt(ps)  == [i \in 1..Len(ps) |-> Elem(Cid(i), ps[i], 1)]

\* the unit as drags have left it: shelves and columns anywhere in [0,1]
InitAdd ==
    /\ \E sp \in PositionLists, cp \in PositionLists :
          unit = [InitialUnit EXCEPT !.shelves = ShelvesAt(sp), !.columns = ColumnsAt(cp)]
    /\ dragStartPosition = EmptyMap
    /\ active = EmptyMap
    /\ clock = Epoch
    /\ events = 0
    /\ last = NoOp

NextAdd ==
    \/ \E now \in Now : addShelf(now)
    \/ \E now \in Now : addColumn(now)

SpecAdd == InitAdd /\ [][NextAdd]_vars

\* ------------------------------------------- buttons used during a drag
\* the gestures whose element is still rendered for unit u: elements are
\* keyed by id, and a shelf or column whose id leaves the list is unmounted
\* with its control
StillMounted(a, u) == [k \in (DOMAIN a) \cap Mounted(u) |-> a[k]]

\* a button is activated while a control is being dragged (second pointer,
\* keyboard).  A control unmounted by the new unit is disposed: the cleanup
\* of the component's effect does not call onDragEnd, and no
\* "dragging-changed" reaches the handlers afterwards.
ButtonDuringDrag(op, u) ==
    /\ DOMAIN active # {}
    /\ Handle
    /\ unit' = u
    /\ active' = Disturb(StillMounted(active, u))
    /\ last' = [NoOp EXCEPT !.op = op]
    /\ UNCHANGED <<dragStartPosition, clock>>

removeShelfDuringDrag  == ButtonDuringDrag("removeShelf", ShelfRemoved(unit))
removeColumnDuringDrag == ButtonDuringDrag("removeColumn", ColumnRemoved(unit))
applyLayoutDuringDrag(layout) == ButtonDuringDrag("applyLayout", LayoutApplied(unit, layout))
resetUnitDuringDrag    == ButtonDuringDrag("resetUnit", UnitReset(unit))

NextMid ==
    \/ Next
    \/ removeShelfDuringDrag
    \/ removeColumnDuringDrag
    \/ \E layout \in LayoutNames : applyLayoutDuringDrag(layout)
    \/ resetUnitDuringDrag

SpecMid == Init /\ [][NextMid]_vars

\* ------------------------------------ the unit's dimensions and its layout
NextGeom ==
    \/ \E value \in WidthValues : setWidth(value)
    \/ \E value \in HeightValues : setHeight(value)
    \/ \E value \in DepthValues : setDepth(value)
    \/ \E value \in ThicknessValues : setThickness(value)
    \/ \E thickness \in THICKNESS_PRESETS : applyThicknessPreset(thickness)
    \/ \E layout \in LayoutNames : applyLayout(layout)

\* positions (hundredths) and divisions a drag has left an element with
GeomHundredths == {0, 50, 110}
GeomDivisions  == 1..5

\* the unit after construction, or with its shelf and its column as a drag
\* has left them
InitGeom ==
    /\ \/ unit = InitialUnit
       \/ \E c \in GeomHundredths, n \in GeomDivisions :
             unit = [InitialUnit EXCEPT !.shelves = <<Elem(Sid(1), P(c), n)>>,
                                        !.columns = <<Elem(Cid(1), P(c), n)>>]
    /\ dragStartPosition = EmptyMap
    /\ active = EmptyMap
    /\ clock = Epoch
    /\ events = 0
    /\ last = NoOp

SpecGeom == InitGeom /\ [][NextGeom]_vars

\* ------------------------------------------------- display attributes
\* the keys of MATERIALS
MaterialNames == {"wood", "white", "black", "walnut", "oak"}

\* (mutation of WithMaterial: the material is set on the initial unit)
WithMaterialOnInitial(prev, material) == [InitialUnit EXCEPT !.material = material]

\* { ...prev, material }
WithMaterial(prev, material) == [prev EXCEPT !.material = material]

toggleWireframe ==
    /\ Click
    /\ unit' = [unit EXCEPT !.showWireframe = ~unit.showWireframe]
    /\ last' = [NoOp EXCEPT !.op = "toggleWireframe"]
    /\ UNCHANGED <<dragStartPosition, active, clock>>

toggleDimensions ==
    /\ Click
    /\ unit' = [unit EXCEPT !.showDimensions = ~unit.showDimensions]
    /\ last' = [NoOp EXCEPT !.op = "toggleDimensions"]
    /\ UNCHANGED <<dragStartPosition, active, clock>>

toggleViewMode ==
    /\ Click
    /\ unit' = [unit EXCEPT !.viewMode = IF unit.viewMode = "3d" THEN "orthographic" ELSE "3d"]
    /\ last' = [NoOp EXCEPT !.op = "toggleViewMode"]
    /\ UNCHANGED <<dragStartPosition, active, clock>>

changeMaterial(material) ==
    /\ Click
    /\ unit' = WithMaterial(unit, material)
    /\ last' = [NoOp EXCEPT !.op = "changeMaterial"]
    /\ UNCHANGED <<dragStartPosition, active, clock>>

\* the display controls, on any layout and any drag result
NextDisplay ==
    \/ toggleWireframe
    \/ toggleDimensions
    \/ toggleViewMode
    \/ \E material \in MaterialNames : changeMaterial(material)
    \/ \E layout \in LayoutNames : applyLayout(layout)

SpecDisplay == InitGeom /\ [][NextDisplay]_vars

\* ------------------------------------------------ reset after any changes
\* normalized positions the drags before a reset report (hundredths)
ResetDragHundredths == {20, 110}

\* sliders, display controls and drags of the preset elements, and reset
NextReset ==
    \/ \E id \in ElemIds : DragStart(id)
    \/ \E id \in ElemIds, c \in ResetDragHundredths : handleShelfDrag(id, P(c))
    \/ \E id \in ElemIds, c \in ResetDragHundredths : handleColumnDrag(id, P(c))
    \/ \E id \in ElemIds : handleDragEnd(id)
    \/ \E value \in WidthValues : setWidth(value)
    \/ \E value \in HeightValues : setHeight(value)
    \/ \E value \in DepthValues : setDepth(value)
    \/ \E value \in ThicknessValues : setThickness(value)
    \/ toggleWireframe
    \/ toggleDimensions
    \/ toggleViewMode
    \/ \E material \in MaterialNames : changeMaterial(material)
    \/ resetUnit
    \/ resetUnitDuringDrag

SpecReset == Init /\ [][NextReset]_vars

\* ------------------------------------- removes issued from the same render
\* removeShelf / removeColumn called in a render whose unit is render: the
\* guard reads the render's unit, the updater the state it finds
ShelfRemovedIn(render, prev) ==
    IF Len(render.shelves) > 0 THEN [prev EXCEPT !.shelves = DropLast(@)] ELSE prev

ColumnRemovedIn(render, prev) ==
    IF Len(render.columns) > 0 THEN [prev EXCEPT !.columns = DropLast(@)] ELSE prev

RECURSIVE ShelvesRemovedIn(_, _, _)
\* k calls of removeShelf before the next render
ShelvesRemovedIn(render, prev, k) ==
    IF k = 0 THEN prev ELSE ShelvesRemovedIn(render, ShelfRemovedIn(render, prev), k - 1)

RECURSIVE ColumnsRemovedIn(_, _, _)
\* k calls of removeColumn before the next render
ColumnsRemovedIn(render, prev, k) ==
    IF k = 0 THEN prev ELSE ColumnsRemovedIn(render, ColumnRemovedIn(render, prev), k - 1)

MaxQueued == 3   \* calls of one handler before the next render

removeShelfQueued(k) ==
    /\ Click
    /\ unit' = ShelvesRemovedIn(unit, unit, k)
    /\ last' = [NoOp EXCEPT !.op = "removeShelf", !.n = k]
    /\ UNCHANGED <<dragStartPosition, active, clock>>

removeColumnQueued(k) ==
    /\ Click
    /\ unit' = ColumnsRemovedIn(unit, unit, k)
    /\ last' = [NoOp EXCEPT !.op = "removeColumn", !.n = k]
    /\ UNCHANGED <<dragStartPosition, active, clock>>

NextRemove ==
    \/ \E k \in 1..MaxQueued : removeShelfQueued(k)
    \/ \E k \in 1..MaxQueued : removeColumnQueued(k)

\* the unit with any shelves and columns, none included
InitRemove ==
    /\ \E ps \in PositionLists, qs \in PositionLists :
          unit = [InitialUnit EXCEPT !.shelves = ShelvesAt(ps), !.columns = ColumnsAt(qs)]
    /\ dragStartPosition = EmptyMap
    /\ active = EmptyMap
    /\ clock = Epoch
    /\ events = 0
    /\ last = NoOp

SpecRemove == InitRemove /\ [][NextRemove]_vars

\* ----------------------------------------- listeners of the drag controls
\* here active holds, for each mounted shelf and column, the listener lists
\* of its TransformControls and the closure of the effect that ran last
Render(u, dsp) == [unit |-> u, dragStartPosition |-> dsp]

\* the function (event) => { ... } the effect of run n registers, and the
\* handleDrag of the same run; functions of different runs are different
OnDraggingChanged(effect) == [kind |-> "onDraggingChanged", run |-> effect.run, render |-> effect.render]
HandleDragOf(effect)      == [kind |-> "handleDrag", run |-> effect.run, render |-> effect.render]

\* EventDispatcher.addEventListener / removeEventListener
addEventListener(list, l) ==
    IF \E i \in 1..Len(list) : list[i] = l THEN list ELSE Append(list, l)
removeEventListener(list, l) == SelectSeq(list, LAMBDA x : x # l)

\* return () => { controls.removeEventListener("dragging-changed", handleDrag) }
Cleanup(c) ==
    [c EXCEPT !.draggingChanged = removeEventListener(@, HandleDragOf(c.effect))]

\* the effect body: controls.addEventListener("dragging-changed", (event) => ...)
EffectBody(c, render) ==
    LET effect == [run |-> c.effect.run + 1, render |-> render]
    IN  [c EXCEPT !.effect = effect,
                  !.draggingChanged = addEventListener(@, OnDraggingChanged(effect))]

\* useEffect(..., [onDrag, onDragEnd]) on a re-render: onDrag is a new
\* function in every render, so the cleanup of the previous run and then
\* the body run again
UseEffect(c, render) == EffectBody(Cleanup(c), render)

\* a render of ShelvingUnitPro with state u, dsp: every mounted shelf and
\* column runs its effect
Rerender(a, u, dsp) == [id \in DOMAIN a |-> UseEffect(a[id], Render(u, dsp))]

\* the first render: refs are attached, each effect has run once
Mount(render) ==
    [effect |-> [run |-> 1, render |-> render],
     draggingChanged |-> <<OnDraggingChanged([run |-> 1, render |-> render])>>,
     objectChange |-> <<>>,
     dragging |-> FALSE]

InitListeners ==
    /\ unit = InitialUnit
    /\ dragStartPosition = EmptyMap
    /\ active = [id \in Mounted(InitialUnit) |-> Mount(Render(InitialUnit, EmptyMap))]
    /\ clock = Epoch
    /\ events = 0
    /\ last = NoOp

RECURSIVE StartAll(_, _)
\* "dragging-changed" with value true reaches every listener in turn:
\* controls.addEventListener("objectChange", handleDrag)
StartAll(listeners, objectChange) ==
    IF listeners = <<>> THEN objectChange
    ELSE StartAll(Tail(listeners), addEventListener(objectChange, HandleDragOf(Head(listeners))))

RECURSIVE EndAll(_, _)
\* "dragging-changed" with value false reaches every listener in turn:
\* controls.removeEventListener("objectChange", handleDrag)
EndAll(listeners, objectChange) ==
    IF listeners = <<>> THEN objectChange
    ELSE EndAll(Tail(listeners), removeEventListener(objectChange, HandleDragOf(Head(listeners))))

\* handleShelfDrag / handleColumnDrag of one render, applied to the state s
\* the updaters find
DragUpdate(s, render, id, normalized) ==
    LET field == IF id[1] = "s" THEN "shelves" ELSE "columns"
    IN  Render([s.unit EXCEPT ![field] = DragMap(@, render.dragStartPosition, id, normalized)],
               IF Falsy(render.dragStartPosition, id)
               THEN Put(s.dragStartPosition, id, FindPosition(render.unit[field], id))
               ELSE s.dragStartPosition)

RECURSIVE DragAll(_, _, _, _)
\* "objectChange" reaches every registered handleDrag in turn
DragAll(listeners, s, id, normalized) ==
    IF listeners = <<>> THEN s
    ELSE DragAll(Tail(listeners), DragUpdate(s, Head(listeners).render, id, normalized),
                 id, normalized)

\* pointer down on the control of id: "dragging-changed", value true
draggingChangedTrue(id) ==
    /\ id \in DOMAIN active
    /\ ~active[id].dragging
    /\ Cardinality({k \in DOMAIN active : active[k].dragging}) < MaxActive
    /\ Handle
    /\ active' = [active EXCEPT
                     ![id].objectChange = StartAll(active[id].draggingChanged, @),
                     ![id].dragging = TRUE]
    /\ last' = [NoOp EXCEPT !.op = "draggingChanged", !.id = id,
                            !.n = Len(active[id].draggingChanged)]
    /\ UNCHANGED <<unit, dragStartPosition, clock>>

\* pointer move on the control of id: "objectChange"; the state changes,
\* so the component renders again
objectChange(id, normalized) ==
    /\ id \in DOMAIN active
    /\ active[id].dragging
    /\ Handle
    /\ LET s == DragAll(active[id].objectChange, Render(unit, dragStartPosition), id, normalized)
       IN  /\ unit' = s.unit
           /\ dragStartPosition' = s.dragStartPosition
           /\ active' = Rerender(active, s.unit, s.dragStartPosition)
    /\ last' = [NoOp EXCEPT !.op = "objectChange", !.id = id, !.y = normalized,
                            !.n = Len(active[id].objectChange)]
    /\ UNCHANGED clock

\* pointer up on the control of id: "dragging-changed", value false; each
\* listener calls handleDragEnd, which sets a new {} and so renders again
draggingChangedFalse(id) ==
    /\ id \in DOMAIN active
    /\ active[id].dragging
    /\ Handle
    /\ dragStartPosition' = EmptyMap
    /\ active' = Rerender([active EXCEPT
                              ![id].objectChange = EndAll(active[id].draggingChanged, @),
                              ![id].dragging = FALSE],
                          unit, EmptyMap)
    /\ last' = [NoOp EXCEPT !.op = "handleDragEnd", !.id = id,
                            !.n = Len(active[id].draggingChanged)]
    /\ UNCHANGED <<unit, clock>>

\* the wireframe switch between gestures, and the render it causes
toggleWireframeRender ==
    /\ \A id \in DOMAIN active : ~active[id].dragging
    /\ Handle
    /\ unit' = [unit EXCEPT !.showWireframe = ~unit.showWireframe]
    /\ active' = Rerender(active, unit', dragStartPosition)
    /\ last' = [NoOp EXCEPT !.op = "toggleWireframe"]
    /\ UNCHANGED <<dragStartPosition, clock>>

\* normalized positions a pointer move reports here (hundredths)
MoveHundredths == {20, 60}

NextListeners ==
    \/ \E id \in ElemIds : draggingChangedTrue(id)
    \/ \E id \in ElemIds, c \in MoveHundredths : objectChange(id, P(c))
    \/ \E id \in ElemIds : draggingChangedFalse(id)
    \/ toggleWireframeRender

SpecListeners == InitListeners /\ [][NextListeners]_vars

\* ------------------------------------------- the 2D designer (dividers)
\* ShelvingUnitDesigner is a component of its own: here unit is its
\* ShelvingUnitState, and active holds its activeDivider (empty: null)
Hid(n) == <<"h", n>>
Vid(n) == <<"v", n>>

Divider(i, p, t) == [id |-> i, position |-> p, type |-> t]

DESIGNER_LAYOUTS ==
    [basic |->
        [horizontalDividers |-> <<Divider(Hid(1), P(50), "horizontal")>>,
         verticalDividers   |-> <<Divider(Vid(1), P(50), "vertical")>>],
     bookshelf |->
        [horizontalDividers |-> <<Divider(Hid(1), P(25), "horizontal"),
                                  Divider(Hid(2), P(50), "horizontal"),
                                  Divider(Hid(3), P(75), "horizontal")>>,
         verticalDividers   |-> <<>>],
     display |->
        [horizontalDividers |-> <<Divider(Hid(1), P(60), "horizontal")>>,
         verticalDividers   |-> <<Divider(Vid(1), P(33), "vertical"),
                                  Divider(Vid(2), P(66), "vertical")>>],
     grid |->
        [horizontalDividers |-> <<Divider(Hid(1), P(33), "horizontal"),
                                  Divider(Hid(2), P(66), "horizontal")>>,
         verticalDividers   |-> <<Divider(Vid(1), P(33), "vertical"),
                                  Divider(Vid(2), P(66), "vertical")>>]]

InitialDesigner ==
    [width |-> 600, height |-> 400,
     horizontalDividers |-> DESIGNER_LAYOUTS.basic.horizontalDividers,
     verticalDividers   |-> DESIGNER_LAYOUTS.basic.verticalDividers]

InitDesigner ==
    /\ unit = InitialDesigner
    /\ dragStartPosition = EmptyMap
    /\ active = EmptyMap
    /\ clock = Epoch
    /\ events = 0
    /\ last = NoOp

\* info.point / container size: the pointer is not bounded by the container
\* (hundredths)
DividerHundredths == {0 - 20, 5, 10, 50, 90, 130}
DividerPositions  == {P(c) : c \in DividerHundredths}

DividerTypes == {"horizontal", "vertical"}

DividersOf(u, type) == IF type = "horizontal" THEN u.horizontalDividers ELSE u.verticalDividers

\* (mutation of ConstrainedPosition: only the upper bound is applied)
ConstrainedPositionUpperOnly(newPosition) ==
    IF newPosition > P(90) THEN P(90) ELSE newPosition

\* Math.max(0.1, Math.min(0.9, newPosition))
ConstrainedPosition(newPosition) ==
    LET m == IF newPosition < P(90) THEN newPosition ELSE P(90)
    IN  IF m > P(10) THEN m ELSE P(10)

\* dividers.map((div) => div.id === id ? { ...div, position } : div)
DividerMap(seq, id, position) ==
    [i \in 1..Len(seq) |-> IF seq[i].id = id THEN [seq[i] EXCEPT !.position = position] ELSE seq[i]]

\* onDragStart={() => setActiveDivider(divider.id)}
dividerDragStart(id, type) ==
    /\ active = EmptyMap
    /\ id \in Ids(DividersOf(unit, type))
    /\ Handle
    /\ active' = Put(EmptyMap, id, type)
    /\ last' = [NoOp EXCEPT !.op = "dividerDragStart", !.id = id]
    /\ UNCHANGED <<unit, dragStartPosition, clock>>

\* onDrag -> handleDividerDrag(divider.id, type, newPosition)
handleDividerDrag(id, type, newPosition) ==
    /\ id \in DOMAIN active
    /\ active[id] = type
    /\ Handle
    /\ LET constrainedPosition == ConstrainedPosition(newPosition)
       IN  unit' = IF type = "horizontal"
                   THEN [unit EXCEPT !.horizontalDividers = DividerMap(@, id, constrainedPosition)]
                   ELSE [unit EXCEPT !.verticalDividers = DividerMap(@, id, constrainedPosition)]
    /\ last' = [NoOp EXCEPT !.op = "dividerDrag", !.id = id, !.y = newPosition]
    /\ UNCHANGED <<dragStartPosition, active, clock>>

\* onDragEnd={() => setActiveDivider(null)}
dividerDragEnd ==
    /\ active # EmptyMap
    /\ Handle
    /\ active' = EmptyMap
    /\ last' = [NoOp EXCEPT !.op = "dividerDragEnd"]
    /\ UNCHANGED <<unit, dragStartPosition, clock>>

\* id: `${type[0]}${Date.now()}`
NewDividerId(type, now) == IF type = "horizontal" THEN Hid(now) ELSE Vid(now)

addDivider(type, now) ==
    /\ Click
    /\ Len(DividersOf(unit, type)) < MaxElems
    /\ LET newDivider == Divider(NewDividerId(type, now), P(50), type)
       IN  /\ unit' = IF type = "horizontal"
                      THEN [unit EXCEPT !.horizontalDividers = Append(@, newDivider)]
                      ELSE [unit EXCEPT !.verticalDividers = Append(@, newDivider)]
           /\ last' = [NoOp EXCEPT !.op = "addDivider", !.id = newDivider.id]
    /\ clock' = now
    /\ UNCHANGED <<dragStartPosition, active>>

\* newDividers.pop() on a copy, if the list is not empty
removeDivider(type) ==
    /\ Click
    /\ unit' = IF type = "horizontal" /\ Len(unit.horizontalDividers) > 0
               THEN [unit EXCEPT !.horizontalDividers = DropLast(@)]
               ELSE IF type = "vertical" /\ Len(unit.verticalDividers) > 0
               THEN [unit EXCEPT !.verticalDividers = DropLast(@)]
               ELSE unit
    /\ last' = [NoOp EXCEPT !.op = "removeDivider"]
    /\ UNCHANGED <<dragStartPosition, active, clock>>

applyDividerLayout(layout) ==
    /\ Click
    /\ unit' = [unit EXCEPT !.horizontalDividers = DESIGNER_LAYOUTS[layout].horizontalDividers,
                            !.verticalDividers = DESIGNER_LAYOUTS[layout].verticalDividers]
    /\ last' = [NoOp EXCEPT !.op = "applyLayout"]
    /\ UNCHANGED <<dragStartPosition, active, clock>>

DividerIds == {Hid(n) : n \in 1..(Epoch + ClockSpan)} \cup {Vid(n) : n \in 1..(Epoch + ClockSpan)}

NextDesigner ==
    \/ \E id \in DividerIds, type \in DividerTypes : dividerDragStart(id, type)
    \/ \E id \in DividerIds, type \in DividerTypes, newPosition \in DividerPositions :
          handleDividerDrag(id, type, newPosition)
    \/ dividerDragEnd
    \/ \E type \in DividerTypes, now \in Now : addDivider(type, now)
    \/ \E type \in DividerTypes : removeDivider(type)
    \/ \E layout \in LayoutNames : applyDividerLayout(layout)

SpecDesigner == InitDesigner /\ [][NextDesigner]_vars


\* ================================================================ claims
IsDrag == last.op \in {"shelfDrag", "columnDrag"}

\* the list the last drag handler mapped over, as it is after the update
Dragged == IF last.op = "shelfDrag" THEN unit.shelves ELSE unit.columns

\* indices of the elements the last drag update rewrote
Hit == {i \in 1..Len(last.dists) : last.dists[i] >= 0}

DistinctIds(seq) == \A i, j \in 1..Len(seq) : i # j => seq[i].id # seq[j].id

Min(a, b) == IF a < b THEN a ELSE b

\* ---- C1
C1_Table(d) ==
    IF d <= P(5) THEN 1
    ELSE IF d <= P(10) THEN 2
    ELSE IF d <= P(15) THEN 3
    ELSE IF d <= P(20) THEN 4
    ELSE 5

\* C1: a shelf or column drag update that computed drag distance d stores
\* divisions 1 for d <= 0.05, 2 for (0.05, 0.10], 3 for (0.10, 0.15], 4 for
\* (0.15, 0.20] and 5 above 0.20; the rule is monotonic non-decreasing, never
\* above 5, and gives 1, 2, 3, 4 at the distances 0.05, 0.10, 0.15, 0.20.
C1_DivisionThresholds ==
    IsDrag =>
        /\ \A i \in Hit : Dragged[i].divisions = C1_Table(last.dists[i])
        /\ \A i \in Hit : Dragged[i].divisions <= 5
        /\ \A c \in 0..30 : NewDivisions(P(c)) <= NewDivisions(P(c) + 1)
                            /\ NewDivisions(P(c) + 1) <= NewDivisions(P(c + 1))
        /\ <<NewDivisions(P(5)), NewDivisions(P(10)), NewDivisions(P(15)), NewDivisions(P(20))>>
              = <<1, 2, 3, 4>>

\* a drag update measured exactly 0.20 and stored 4 divisions
C1_Witness ==
    /\ IsDrag
    /\ \E i \in Hit : last.dists[i] = P(20) /\ Dragged[i].divisions = 4

\* ---- C2
\* C2 as stated: the stored divisions equal 1 + min(4, floor(d / 0.05)).
C2_FloorFormula ==
    IsDrag => \A i \in Hit : Dragged[i].divisions = 1 + Min(4, last.dists[i] \div P(5))

\* ceil(d / 0.05) for d >= 0
CeilSteps(d) == (d + P(5) - 1) \div P(5)

\* C2 amended: the stored divisions equal 1 + min(4, floor(d / 0.05)) unless d
\* is one of 0.05, 0.10, 0.15, 0.20, where they are one less; for every d >= 0
\* that is 1 + min(4, max(0, ceil(d / 0.05) - 1)).
C2_CeilFormula ==
    IsDrag =>
        \A i \in Hit :
            LET d == last.dists[i]
                onStep == d \in {P(5), P(10), P(15), P(20)}
            IN  /\ Dragged[i].divisions =
                     1 + Min(4, IF d = 0 THEN 0 ELSE CeilSteps(d) - 1)
                /\ Dragged[i].divisions =
                     1 + Min(4, d \div P(5)) - (IF onStep THEN 1 ELSE 0)

\* a drag update measured exactly 0.05 and stored 1 division
C2_Witness ==
    /\ IsDrag
    /\ \E i \in Hit : last.dists[i] = P(5) /\ Dragged[i].divisions = 1

\* ---- C3
\* C3 as stated: every drag update of a gesture measures its distance from
\* p0, the position the element had right before the gesture's first update.
C3_StableBaseline ==
    (IsDrag /\ DistinctIds(Dragged)) =>
        \A i \in Hit : last.dists[i] = Abs(last.y - active[last.id].p0)

\* ---- C4
\* C4 as stated: the element's drag-session entry is created by the first
\* update of the gesture with the pre-drag position and is written once per
\* gesture: later updates of the gesture do not write it again.
C4_WrittenOnce ==
    \A id \in DOMAIN active :
        /\ (active[id].updates >= 1 /\ active[id].solo) =>
              /\ id \in DOMAIN dragStartPosition
              /\ dragStartPosition[id] = active[id].p0
        /\ active[id].writes <= 1

\* ---- C5
\* C5 as stated: from the basic preset, an update of a gesture on shelf s1
\* that reports 0.73 leaves it with 5 divisions; after drag end the session
\* map is empty; the first update of a following gesture on s1 that moves it
\* by 0.03 from 0.73 leaves it with 1 division.
C5_Scenario ==
    /\ ( /\ last.op = "shelfDrag" /\ last.id = Sid(1) /\ last.y = P(73)
         /\ active[Sid(1)].solo
         /\ active[Sid(1)].render.unit.shelves = LAYOUTS.basic.shelves )
       => unit.shelves[1].divisions = 5
    /\ last.op = "dragEnd" => dragStartPosition = EmptyMap
    /\ ( /\ last.op = "shelfDrag" /\ last.id = Sid(1) /\ last.y \in {P(70), P(76)}
         /\ active[Sid(1)].solo /\ active[Sid(1)].updates = 1
         /\ active[Sid(1)].render.unit.shelves = <<Elem(Sid(1), P(73), 5)>> )
       => unit.shelves[1].divisions = 1

InUnitRange(seq) == \A i \in 1..Len(seq) : 0 <= seq[i].position /\ seq[i].position <= One

\* C7 as stated: every stored shelf and column position lies in [0,1]; a drag
\* update that reports a position outside [0,1] stores a clamped value.
C7_PositionsInRange == InUnitRange(unit.shelves) /\ InUnitRange(unit.columns)

\* ---- C8
\* C8 as stated: shelf ids are pairwise distinct and column ids are pairwise
\* distinct in every reachable state.
C8_UniqueIds == DistinctIds(unit.shelves) /\ DistinctIds(unit.columns)

\* ---- C9
DivisionsInRange(seq) == \A i \in 1..Len(seq) : seq[i].divisions \in 1..5

\* C9: every shelf and every column has an integer divisions value between
\* 1 and 5.
C9_DivisionsRange == DivisionsInRange(unit.shelves) /\ DivisionsInRange(unit.columns)

\* a drag update stored the largest value next to a newly added element
C9_Witness ==
    /\ last.op = "shelfDrag"
    /\ \E i, j \in 1..Len(unit.shelves) :
          /\ unit.shelves[i].divisions = 5
          /\ unit.shelves[j].id[2] >= Epoch

\* ---- C10
\* the candidate gaps of the sorted positions ep, in scan order
GapLo(ep, k) == IF k = 0 THEN 0 ELSE ep[k]
GapHi(ep, k) == IF k = Len(ep) THEN One ELSE ep[k + 1]
GapWidth(ep, k) == GapHi(ep, k) - GapLo(ep, k)

\* the first gap of maximum width
WidestFirst(ep) ==
    CHOOSE k \in 0..Len(ep) :
        /\ \A j \in 0..Len(ep) : GapWidth(ep, j) <= GapWidth(ep, k)
        /\ \A j \in 0..(k - 1) : GapWidth(ep, j) < GapWidth(ep, k)

IsAdd == last.op \in {"addShelf", "addColumn"}

\* C10: add-shelf / add-column choose 0.5 when there is no element, and else
\* the midpoint of the first gap of maximum width among [0, first], the
\* interior gaps left to right and [last, 1]; [0.5] gives 0.25 and
\* [0.2, 0.8] gives 0.5.
C10_LargestGapMidpoint ==
    IsAdd =>
        /\ last.existing = <<>> => last.newPos = P(50)
        /\ last.existing # <<>> =>
              LET k == WidestFirst(last.existing)
              IN  2 * last.newPos = GapLo(last.existing, k) + GapHi(last.existing, k)
        /\ last.existing = <<P(50)>> => last.newPos = P(25)
        /\ NewPosition(<<>>) = P(50)
        /\ NewPosition(<<P(50)>>) = P(25)
        /\ NewPosition(<<P(20), P(80)>>) = P(50)

\* add-shelf ran on shelves at 0.33 and 0.8 and chose the middle of the
\* interior gap, 0.565
C10_Witness ==
    /\ last.op = "addShelf"
    /\ last.existing = <<P(33), P(80)>>
    /\ 2 * last.newPos = P(33) + P(80)

\* ---- C11
\* C11: whenever the existing positions all lie in [0,1] (0, 1 and repeated
\* values included), the position add-shelf / add-column computes lies in
\* [0,1].
C11_NewPositionInRange ==
    /\ (IsAdd /\ \A i \in 1..Len(last.existing) :
                    0 <= last.existing[i] /\ last.existing[i] <= One)
          => (0 <= last.newPos /\ last.newPos <= One)
    /\ \A ps \in {<<0, 0, One>>, <<0, One, One>>, <<One, One, One>>, <<0, 0, 0>>} :
          0 <= NewPosition(ps) /\ NewPosition(ps) <= One

\* add-column ran on columns at 0 and at 1
C11_Witness ==
    /\ last.op = "addColumn"
    /\ last.existing = <<0, One>>
    /\ last.newPos = P(50)

\* ---- C12
\* C12: add-shelf / add-column put exactly one new element, with divisions 2,
\* at the end of the list, whatever position they computed, and leave every
\* existing shelf and column and every other field of the unit as it was.
C12_AddAppendsOne ==
    [][ /\ last'.op = "addShelf" =>
              /\ Len(unit'.shelves) = Len(unit.shelves) + 1
              /\ SubSeq(unit'.shelves, 1, Len(unit.shelves)) = unit.shelves
              /\ unit'.shelves[Len(unit'.shelves)] = Elem(last'.id, last'.newPos, 2)
              /\ [unit' EXCEPT !.shelves = unit.shelves] = unit
        /\ last'.op = "addColumn" =>
              /\ Len(unit'.columns) = Len(unit.columns) + 1
              /\ SubSeq(unit'.columns, 1, Len(unit.columns)) = unit.columns
              /\ unit'.columns[Len(unit'.columns)] = Elem(last'.id, last'.newPos, 2)
              /\ [unit' EXCEPT !.columns = unit.columns] = unit ]_vars

\* add-shelf put a third shelf, with 2 divisions, behind a shelf that a drag
\* had left with 5
C12_Witness ==
    /\ last.op = "addShelf"
    /\ Len(unit.shelves) = 3
    /\ unit.shelves[3] = Elem(last.id, last.newPos, 2)
    /\ \E i \in 1..2 : unit.shelves[i].divisions = 5

\* ---- C13
IdSeq(seq) == [i \in 1..Len(seq) |-> seq[i].id]

\* preset elements first, then the added ones in the order of their clock values
InInsertionOrder(seq) == \A i, j \in 1..Len(seq) : i < j => seq[i].id[2] <= seq[j].id[2]

\* C13: the stored order of shelves and of columns is insertion order: a drag
\* update keeps every element at its index, and add-shelf / add-column, which
\* sort a copy of the positions, keep the stored elements in their order.
C13_InsertionOrder ==
    /\ [][ /\ last'.op \in {"shelfDrag", "columnDrag"} =>
                 /\ IdSeq(unit'.shelves) = IdSeq(unit.shelves)
                 /\ IdSeq(unit'.columns) = IdSeq(unit.columns)
           /\ last'.op \in {"addShelf", "addColumn"} =>
                 /\ IdSeq(SubSeq(unit'.shelves, 1, Len(unit.shelves))) = IdSeq(unit.shelves)
                 /\ IdSeq(SubSeq(unit'.columns, 1, Len(unit.columns))) = IdSeq(unit.columns) ]_vars
    /\ [](InInsertionOrder(unit.shelves) /\ InInsertionOrder(unit.columns))

\* add-shelf ran after a drag had moved the first shelf above the second: the
\* sorted positions it scanned are not in stored order
C13_Witness ==
    /\ last.op = "addShelf"
    /\ Len(unit.shelves) = 3
    /\ unit.shelves[1].position > unit.shelves[2].position
    /\ last.existing = <<unit.shelves[2].position, unit.shelves[1].position>>
    /\ IdSeq(unit.shelves) = <<Sid(1), Sid(2), last.id>>

\* ---- C14
Max(a, b) == IF a > b THEN a ELSE b

\* the extent of a box along axis a (1: x, 2: y, 3: z)
Lo(b, a) == b.position[a] - b.args[a] \div 2
Hi(b, a) == b.position[a] + b.args[a] \div 2

\* the two boxes share a region of positive volume
Overlap(b1, b2) == \A a \in 1..3 : Max(Lo(b1, a), Lo(b2, a)) < Min(Hi(b1, a), Hi(b2, a))

BasePanels(m) == {m.bottom, m.top, m.left, m.right, m.back}

\* 0 < 2t < min(width, height, depth)
ValidDims(u) ==
    /\ 0 < 2 * u.thickness
    /\ 2 * u.thickness < u.width
    /\ 2 * u.thickness < u.height
    /\ 2 * u.thickness < u.depth

\* the interior (width - 2t) x height x (depth - 2t), centered
Interior(u) ==
    Box("interior", <<0, 0, 0>>,
        <<Scene(u.width - 2 * u.thickness), Scene(u.height), Scene(u.depth - 2 * u.thickness)>>)

\* C14 as stated: for 0 < 2t < min(width, height, depth) no two of the five
\* base panels share a region of positive volume, and the panels bound the
\* interior (width - 2t) x height x (depth - 2t) without gaps: none reaches
\* into it and each has its inner face on the interior's boundary.
C14_PanelsEnclose ==
    (unit.viewMode = "3d" /\ ValidDims(unit)) =>
        LET m == ShelvingUnitModel(unit)
            I == Interior(unit)
        IN  /\ \A p, q \in BasePanels(m) : p # q => ~Overlap(p, q)
            /\ \A p \in BasePanels(m) : ~Overlap(p, I)
            /\ Hi(m.left, 1) = Lo(I, 1)
            /\ Lo(m.right, 1) = Hi(I, 1)
            /\ Hi(m.bottom, 2) = Lo(I, 2)
            /\ Lo(m.top, 2) = Hi(I, 2)
            /\ Hi(m.back, 3) = Lo(I, 3)

\* ---- C15
\* the outer envelope width x height x depth, centered
Envelope(u) == Box("envelope", <<0, 0, 0>>, <<Scene(u.width), Scene(u.height), Scene(u.depth)>>)

Inside(b, env) == \A a \in 1..3 : Lo(env, a) <= Lo(b, a) /\ Hi(b, a) <= Hi(env, a)

\* C15 as stated: for 0 < 2t < min(width, height, depth) every base panel
\* lies inside the outer envelope with its outer face on the envelope: left
\* and right are centered at -/+(width/2 - t/2), bottom and top at
\* -/+(height/2 - t/2).
C15_PanelsInEnvelope ==
    (unit.viewMode = "3d" /\ ValidDims(unit)) =>
        LET m   == ShelvingUnitModel(unit)
            env == Envelope(unit)
            w   == Scene(unit.width)
            h   == Scene(unit.height)
            t   == Scene(unit.thickness)
        IN  /\ \A p \in BasePanels(m) : Inside(p, env)
            /\ Lo(m.left, 1) = Lo(env, 1)
            /\ Hi(m.right, 1) = Hi(env, 1)
            /\ Lo(m.bottom, 2) = Lo(env, 2)
            /\ Hi(m.top, 2) = Hi(env, 2)
            /\ Lo(m.back, 3) = Lo(env, 3)
            /\ m.left.position[1] = 0 - (w \div 2 - t \div 2)
            /\ m.right.position[1] = w \div 2 - t \div 2
            /\ m.bottom.position[2] = 0 - (h \div 2 - t \div 2)
            /\ m.top.position[2] = h \div 2 - t \div 2

\* ---- C16
\* C16: the main board of every shelf has size (width - 2t) x t x
\* (depth - 2t) and is centered at x = 0, y = -height/2 + position * height.
C16_ShelfBoard ==
    LET m == ShelvingUnitModel(unit)
    IN  /\ Len(m.shelfComponents) = Len(unit.shelves)
        /\ \A i \in 1..Len(unit.shelves) :
              LET main == m.shelfComponents[i].main
              IN  /\ main.args = <<Scene(unit.width - 2 * unit.thickness),
                                   Scene(unit.thickness),
                                   Scene(unit.depth - 2 * unit.thickness)>>
                  /\ main.position[1] = 0
                  /\ main.position[3] = 0
                  /\ 2 * main.position[2] =
                        unit.height * (Scale \div One) * (2 * unit.shelves[i].position - One)

\* the third shelf of the bookshelf preset, at 0.75, in a unit 5 x 4 x 0.5
\* with thickness 0.19: a board 4.62 x 0.19 x 0.12 at y = 1
C16_Witness ==
    /\ unit.width = 500 /\ unit.height = 400 /\ unit.depth = 50 /\ unit.thickness = 19
    /\ Len(unit.shelves) = 3
    /\ unit.shelves[3].position = P(75)
    /\ ShelvingUnitModel(unit).shelfComponents[3].main =
          Box("shelf", <<0, Scene(100), 0>>, <<Scene(462), Scene(19), Scene(12)>>)

\* ---- C17
\* C17 as stated: a shelf with divisions n has exactly n - 1 division boxes,
\* the k-th at x = -width/2 + k * (width/n), width being the unit's width.
C17_DivisionsAcrossUnitWidth ==
    LET m == ShelvingUnitModel(unit)
        W == Scene(unit.width)
    IN  \A i \in 1..Len(unit.shelves) :
            LET n    == unit.shelves[i].divisions
                divs == m.shelfComponents[i].divisionMeshes
            IN  /\ DOMAIN divs = 1..(n - 1)
                /\ \A k \in 1..(n - 1) : 2 * n * divs[k].position[1] = W * (2 * k - n)

\* C17 amended: a shelf with divisions n has exactly n - 1 division boxes
\* (none when n = 1), the k-th at x = -w/2 + k * (w/n) for k = 1..n-1, where
\* w = width - 2 * thickness is the width of the shelf's main board.
C17_DivisionsAcrossBoard ==
    LET m == ShelvingUnitModel(unit)
        w == Scene(unit.width - 2 * unit.thickness)
    IN  \A i \in 1..Len(unit.shelves) :
            LET n    == unit.shelves[i].divisions
                divs == m.shelfComponents[i].divisionMeshes
            IN  /\ DOMAIN divs = 1..(n - 1)
                /\ \A k \in 1..(n - 1) : 2 * n * divs[k].position[1] = w * (2 * k - n)

\* the second shelf of the display preset, 4 divisions, in a unit 1 wide with
\* thickness 0.2: three boxes, the first at x = -0.15
C17_Witness ==
    /\ unit.width = 100 /\ unit.thickness = 20
    /\ Len(unit.shelves) = 2
    /\ unit.shelves[2].divisions = 4
    /\ DOMAIN ShelvingUnitModel(unit).shelfComponents[2].divisionMeshes = 1..3
    /\ ShelvingUnitModel(unit).shelfComponents[2].divisionMeshes[1].position[1] = 0 - Scene(15)

\* ---- C18
\* C18: the main board of every column has width t, the unit's full height
\* and depth (depth - 2t), and is centered at x = -width/2 + position * width,
\* y = 0; a column with divisions n has exactly n - 1 division boxes, the
\* k-th at y = -height/2 + k * (height/n).
C18_ColumnBoard ==
    LET m == ShelvingUnitModel(unit)
        h == Scene(unit.height)
    IN  /\ Len(m.columnComponents) = Len(unit.columns)
        /\ \A i \in 1..Len(unit.columns) :
              LET main == m.columnComponents[i].main
                  n    == unit.columns[i].divisions
                  divs == m.columnComponents[i].divisionMeshes
              IN  /\ main.args = <<Scene(unit.thickness), h,
                                   Scene(unit.depth - 2 * unit.thickness)>>
                  /\ main.position[2] = 0
                  /\ 2 * main.position[1] =
                        unit.width * (Scale \div One) * (2 * unit.columns[i].position - One)
                  /\ DOMAIN divs = 1..(n - 1)
                  /\ \A k \in 1..(n - 1) : 2 * n * divs[k].position[2] = h * (2 * k - n)

\* a column a drag has left at 0 with 5 divisions, in a unit 5 x 4 x 2 with
\* thickness 0.25: a board 0.25 x 4 x 1.5 at x = -2.5, four boxes, the first
\* at y = -1.2
C18_Witness ==
    /\ unit.width = 500 /\ unit.height = 400 /\ unit.depth = 200 /\ unit.thickness = 25
    /\ unit.columns = <<Elem(Cid(1), 0, 5)>>
    /\ ShelvingUnitModel(unit).columnComponents[1].main =
          Box("column", <<0 - Scene(250), 0, 0>>, <<Scene(25), Scene(400), Scene(150)>>)
    /\ DOMAIN ShelvingUnitModel(unit).columnComponents[1].divisionMeshes = 1..4
    /\ ShelvingUnitModel(unit).columnComponents[1].divisionMeshes[1].position[2] = 0 - Scene(120)

\* ---- C19
\* the last handler was the first drag update of its gesture
FirstUpdate == IsDrag /\ last.id \in DOMAIN active /\ active[last.id].updates = 1

C20_EmptyWhenIdle ==
    /\ DOMAIN active = {} => dragStartPosition = EmptyMap
    /\ DOMAIN dragStartPosition \subseteq DOMAIN active

\* ---- C21
DividersInRange(seq) ==
    \A i \in 1..Len(seq) : P(10) <= seq[i].position /\ seq[i].position <= P(90)

\* the dividers of the two lists, by kind and index, with their positions
DividerAt(u) ==
    [k \in ({"horizontal"} \X (1..Len(u.horizontalDividers)))
            \cup ({"vertical"} \X (1..Len(u.verticalDividers))) |->
        DividersOf(u, k[1])[k[2]].position]

\* C21 as stated: in the 2D designer every divider position is in
\* [0.1, 0.9], and a divider drag stores min(0.9, max(0.1, reported)) for
\* one divider, the dragged one, and changes no other divider.
C21_DividersClamped ==
    /\ [](DividersInRange(unit.horizontalDividers) /\ DividersInRange(unit.verticalDividers))
    /\ [][last'.op = "dividerDrag" =>
            \E k \in DOMAIN DividerAt(unit) :
               /\ DividersOf(unit, k[1])[k[2]].id = last'.id
               /\ DOMAIN DividerAt(unit') = DOMAIN DividerAt(unit)
               /\ DividerAt(unit')[k] = Min(P(90), Max(P(10), last'.y))
               /\ \A j \in DOMAIN DividerAt(unit) \ {k} : DividerAt(unit')[j] = DividerAt(unit)[j]
               /\ unit'.width = unit.width /\ unit'.height = unit.height]_vars

\* ---- C22
\* offsets and offset directions a dimension line may be given
SomeOffsets == {0, D2(5)}
SomeDirections == {<<0, 0, 1>>, <<0 - 1, 0, 0>>, <<0, 1, 1>>}

PerpendicularTo(extension, line) ==
    LET e == SymSub(extension[2], extension[1])
        d == SymSub(line.endPoint, line.startPoint)
    IN  /\ d.s = Zero3
        /\ VDot(e.r, d.r) = 0
        /\ VDot(e.s, d.r) = 0

\* C23: for every dimension line of the 3D dimension labels and of the
\* orthographic views, each of the two extension lines is perpendicular to
\* the dimension line.
C23_ExtensionPerpendicular ==
    LET labels == DimensionLabels(unit.width, unit.height, unit.depth, unit.thickness)
        views  == OrthographicDimensionLines(unit.width, unit.height, unit.depth, unit.thickness)
    IN  /\ Len(labels) = 4 /\ Len(views) = 9
        /\ \A l \in {labels[i] : i \in 1..4} \cup {views[i] : i \in 1..9} :
              /\ PerpendicularTo(l.extensionLine1, l)
              /\ PerpendicularTo(l.extensionLine2, l)

\* the thickness line of a unit 1 wide with thickness 0.2: its extension
\* lines run along (0, 1, 1) / sqrt(2), 0.02 long, the line along x
C23_Witness ==
    /\ unit.width = 100 /\ unit.thickness = 20
    /\ LET l == DimensionLabels(unit.width, unit.height, unit.depth, unit.thickness)[4]
       IN  /\ SymSub(l.extensionLine1[2], l.extensionLine1[1]) = Sym(Zero3, <<0, D2(2), D2(2)>>, 2)
           /\ SymSub(l.endPoint, l.startPoint) = Sym(<<D2(20), 0, 0>>, Zero3, 2)

\* ---- C24
\* (x * 100).toFixed(0) of a position: the nearest whole percent, halves
\* away from zero
Percent(position) ==
    IF position >= 0 THEN (position + H \div 2) \div H
    ELSE 0 - (((0 - position) + H \div 2) \div H)

\* one "Shelf i: Position p% from bottom, d divisions" line
ElementLine(label, i, el, from) ==
    [label |-> label, index |-> i, percent |-> Percent(el.position),
     from |-> from, divisions |-> el.divisions]

\* one "Width: 3.00 units" line: toFixed(2) keeps the hundredths
DimensionText(label, value) ==
    [label |-> label, fixed2 |-> value, unit |-> "units"]

\* the text createDesignSpec returns, line by line (without the date)
createDesignSpec(u) ==
    [dimensions |-> <<DimensionText("Width", u.width),
                      DimensionText("Height", u.height),
                      DimensionText("Depth", u.depth),
                      DimensionText("Material thickness", u.thickness)>>,
     material |-> u.material,
     shelfCount |-> Len(u.shelves),
     shelves |-> [i \in 1..Len(u.shelves) |-> ElementLine("Shelf", i, u.shelves[i], "bottom")],
     columnCount |-> Len(u.columns),
     columns |-> [i \in 1..Len(u.columns) |-> ElementLine("Column", i, u.columns[i], "left")]]

\* C24: the exported design text reports width, height, depth and thickness
\* in millimeters (the parameter times 1000), and has exactly one line per
\* shelf and one per column, in sequence order, with the element's position
\* as a percentage and its division count.
C24_ExportText ==
    LET text   == createDesignSpec(unit)
        params == <<unit.width, unit.height, unit.depth, unit.thickness>>
    IN  /\ \A i \in 1..4 :
              /\ text.dimensions[i].unit = "mm"
              /\ text.dimensions[i].fixed2 = 100 * (10 * params[i])
        /\ Len(text.shelves) = Len(unit.shelves)
        /\ Len(text.columns) = Len(unit.columns)
        /\ \A i \in 1..Len(unit.shelves) :
              /\ text.shelves[i].index = i
              /\ text.shelves[i].percent = Percent(unit.shelves[i].position)
              /\ text.shelves[i].divisions = unit.shelves[i].divisions
        /\ \A i \in 1..Len(unit.columns) :
              /\ text.columns[i].index = i
              /\ text.columns[i].percent = Percent(unit.columns[i].position)
              /\ text.columns[i].divisions = unit.columns[i].divisions

\* ---- C25
DisplayOps == {"toggleWireframe", "toggleDimensions", "toggleViewMode", "changeMaterial"}

\* the field of the unit state a display control writes
DisplayField(op) ==
    CASE op = "toggleWireframe"  -> "showWireframe"
      [] op = "toggleDimensions" -> "showDimensions"
      [] op = "toggleViewMode"   -> "viewMode"
      [] op = "changeMaterial"   -> "material"

\* a display control changes only its own field of the unit state
OnlyItsField ==
    \A f \in (DOMAIN unit) \ {DisplayField(last'.op)} : unit'[f] = unit[f]

\* C25 as stated: changing the material or toggling wireframe, dimension
\* display or view mode changes only that field of the unit state, and the
\* panel and division boxes of the scene are the same before and after.
C25_SameBoxes ==
    [][last'.op \in DisplayOps =>
          /\ OnlyItsField
          /\ ShelvingUnitModel(unit') = ShelvingUnitModel(unit)]_vars

\* C25 amended: changing the material or toggling wireframe, dimension
\* display or view mode changes only that field of the unit state; the
\* panel and division boxes of the scene are the same before and after a
\* material, wireframe or dimension change, and after a view mode toggle
\* exactly one of the two scenes, the one in 3d mode, has the boxes.
C25_DisplayOnly ==
    [][last'.op \in DisplayOps =>
          /\ OnlyItsField
          /\ last'.op # "toggleViewMode" =>
                ShelvingUnitModel(unit') = ShelvingUnitModel(unit)
          /\ last'.op = "toggleViewMode" =>
                /\ unit'.viewMode # unit.viewMode
                /\ \E u \in {unit, unit'} :
                      /\ u.viewMode = "3d"
                      /\ ShelvingUnitModel(u)
                            = ShelvingUnitModel([unit EXCEPT !.viewMode = "3d"])
                /\ \E u \in {unit, unit'} :
                      /\ u.viewMode = "orthographic"
                      /\ ShelvingUnitModel(u)
                            = [shelfComponents |-> <<>>, columnComponents |-> <<>>]]_vars

\* the view mode has just been toggled to orthographic on an oak unit with
\* wireframe on, whose shelf sits at 1.10 with 5 divisions
C25_Witness ==
    /\ last.op = "toggleViewMode"
    /\ unit.viewMode = "orthographic"
    /\ unit.material = "oak"
    /\ unit.showWireframe
    /\ unit.shelves = <<Elem(Sid(1), P(110), 5)>>

\* ---- C26
\* the drag update of element id in the list named field moved exactly one
\* element of seq to the reported position, kept its id, and left every
\* other element and every other field of the unit as it was; with no
\* element of that id the unit is unchanged
DragChangedOne(field) ==
    LET seq     == unit[field]
        matches == {i \in 1..Len(seq) : seq[i].id = last'.id}
    IN  /\ Len(unit'[field]) = Len(seq)
        /\ Cardinality(matches) <= 1
        /\ \A i \in matches :
              /\ unit'[field][i].position = last'.y
              /\ unit'[field][i].id = seq[i].id
        /\ \A i \in (1..Len(seq)) \ matches : unit'[field][i] = seq[i]
        /\ \A f \in (DOMAIN unit) \ {field} : unit'[f] = unit[f]
        /\ matches = {} => unit' = unit

\* C26: a shelf drag update for id X sets the position of shelf X to the
\* reported position and changes only position and divisions of shelf X;
\* every other shelf, every column and every other field is unchanged; the
\* same for a column drag; an update whose id matches no element leaves the
\* unit unchanged.
C26_DragChangesOne ==
    [][/\ last'.op = "shelfDrag" => DragChangedOne("shelves")
       /\ last'.op = "columnDrag" => DragChangedOne("columns")]_vars

\* the same with pairwise distinct ids in the lists before the update
C26_DragChangesOneIfDistinct ==
    [][DistinctIds(unit.shelves) /\ DistinctIds(unit.columns) =>
          /\ last'.op = "shelfDrag" => DragChangedOne("shelves")
          /\ last'.op = "columnDrag" => DragChangedOne("columns")]_vars

\* ---- C27
\* C27: after any number of re-renders each shelf or column has at most one
\* 'dragging-changed' listener on its transform control, so one pointer-move
\* event applies exactly one drag update to the unit state and one release
\* invokes drag end exactly once.
C27_OneListener ==
    /\ \A id \in DOMAIN active : Len(active[id].draggingChanged) <= 1
    /\ last.op \in {"objectChange", "handleDragEnd"} => last.n = 1

\* ---- C28
\* the sorted positions with the two ends of the range around them
WithEnds(existing) == <<0>> \o existing \o <<One>>

\* p is strictly inside a gap of positive width between two neighbours
InsideAGap(existing, p) ==
    \E k \in 1..(Len(existing) + 1) :
       /\ WithEnds(existing)[k] < WithEnds(existing)[k + 1]
       /\ WithEnds(existing)[k] < p
       /\ p < WithEnds(existing)[k + 1]

\* C28: for every non-empty list of existing positions in [0,1], the
\* position add-shelf / add-column compute is strictly inside a gap of
\* positive width and so differs from every existing position.
C28_NoCollision ==
    (/\ IsAdd
     /\ last.existing # <<>>
     /\ \A i \in 1..Len(last.existing) : 0 <= last.existing[i] /\ last.existing[i] <= One)
       => /\ InsideAGap(last.existing, last.newPos)
          /\ \A i \in 1..Len(last.existing) : last.existing[i] # last.newPos

\* add-shelf ran on two shelves both at 0.25 and put the new one at 0.625
C28_Witness ==
    /\ last.op = "addShelf"
    /\ last.existing = <<P(25), P(25)>>
    /\ 2 * last.newPos = P(25) + One

\* ---- C29
\* k removes took the last k elements (all of them if there are fewer) off
\* the list named field and changed nothing else
RemovedLast(field, k) ==
    LET n == Len(unit[field])
        m == IF k < n THEN k ELSE n
    IN  /\ unit'[field] = SubSeq(unit[field], 1, n - m)
        /\ \A f \in (DOMAIN unit) \ {field} : unit'[f] = unit[f]
        /\ n = 0 => unit' = unit

\* C29: remove-shelf (remove-column) deletes exactly the last element of
\* the sequence and leaves the remaining elements, their order and every
\* other field unchanged; on an empty sequence it leaves the state
\* unchanged, also when several removes are issued before the next render.
C29_RemoveLast ==
    [][/\ last'.op = "removeShelf" => RemovedLast("shelves", last'.n)
       /\ last'.op = "removeColumn" => RemovedLast("columns", last'.n)]_vars

\* three removes were issued in the first render: no shelf is left, the two
\* columns are still there
C29_Witness ==
    /\ last.op = "removeShelf"
    /\ last.n = 3
    /\ events = 1
    /\ unit.shelves = <<>>
    /\ Len(unit.columns) = 2

\* ---- C30
\* C30: reset sets width, height, depth to 3, 2, 1 and the shelves and
\* columns to the basic preset (one shelf at 0.5 with 2 divisions, one
\* column at 0.5 with 1 division, as hardcoded, also after drags of the
\* preset elements), and leaves thickness, showWireframe, showDimensions,
\* viewMode and material at their current values.
C30_Reset ==
    [][last'.op = "resetUnit" =>
          /\ <<unit'.width, unit'.height, unit'.depth>> = <<300, 200, 100>>
          /\ unit'.shelves = <<[id |-> Sid(1), position |-> P(50), divisions |-> 2]>>
          /\ unit'.columns = <<[id |-> Cid(1), position |-> P(50), divisions |-> 1]>>
          /\ \A f \in {"thickness", "showWireframe", "showDimensions", "viewMode", "material"} :
                unit'[f] = unit[f]
          /\ DOMAIN unit' = DOMAIN unit]_vars

\* reset has run on a unit with thickness 0.2 while its preset shelf was
\* being dragged: the baseline of that drag is still stored
C30_Witness ==
    /\ last.op = "resetUnit"
    /\ unit.thickness = 20
    /\ unit.shelves = LAYOUTS.basic.shelves
    /\ Sid(1) \in DOMAIN dragStartPosition

====
